---- MODULE Spec2Model ----
(***************************************************************************)
(* Model of the gedcom-parser core: the line record parser (parseLine),    *)
(* the level-stack tree builder (Parser.feed / Parser.attach), the decode  *)
(* pass (applyDecoders with the default registry) and the pointer          *)
(* resolution pass (resolvePointers), as driven by parseGedcomSync, and    *)
(* the line tokenizer (linesFrom) that feeds the builder in parseGedcom.   *)
(*                                                                         *)
(* A text is a sequence of characters; a character is a one-character      *)
(* string, except "BOM", which stands for U+FEFF.  An optional value       *)
(* (undefined in the source) is a sequence of length 0 or 1.               *)
(***************************************************************************)
EXTENDS Integers, Sequences, FiniteSets, TLC

VARIABLES
    nodes,      \* the arena of nodes, in creation order
    roots,      \* Parser.roots: indices of the top-level nodes
    stack,      \* Parser.stack: index i+1 holds stack[i], 0 is undefined
    byId,       \* Parser.byId: <<key, node>> pairs in insertion order
    options,    \* Parser.options
    pc,         \* where parseGedcomSync is: "feed" while lines are fed, then
                \* "decoded" (finish ran the decode pass only) or "resolved"
                \* (the pointer resolution pass has run)
    fed,        \* history: the lines given to feed so far
    log,        \* history: what feed did with each line: <<"skip", 0>>,
                \* <<"cont", target or 0>>, <<"node", new node>>
    input,      \* the input of parseGedcom: its kind, its whole text, how
                \* much of it linesFrom has taken, and whether it has ended
                \* (done) or has thrown (failed)
    buffer      \* linesFrom's buffer: the text after the last line break

vars == <<nodes, roots, stack, byId, options, pc, fed, log, input, buffer>>

(***************************************************************************)
(* Bounds                                                                  *)
(***************************************************************************)
MaxLines == 3

(***************************************************************************)
(* Optional values and texts                                               *)
(***************************************************************************)
Undefined == <<>>
Def(v) == <<v>>
IsDef(o) == o # <<>>
Val(o) == o[1]

Digits == {"0", "1", "2", "3", "4", "5", "6", "7", "8", "9"}
Upper == {"A", "B", "C", "D", "E", "F", "G", "H", "I", "J", "K", "L", "M",
          "N", "O", "P", "Q", "R", "S", "T", "U", "V", "W", "X", "Y", "Z"}
Lower == {"a", "b", "c", "d", "e", "f", "g", "h", "i", "j", "k", "l", "m",
          "n", "o", "p", "q", "r", "s", "t", "u", "v", "w", "x", "y", "z"}

\* the characters \s matches and trim() removes
WhiteSpace == {" ", "\t", "\r", "\n", "BOM"}
\* the characters . does not match
LineTerminators == {"\n", "\r"}
\* [A-Za-z0-9_@]
TagChars == Upper \cup Lower \cup Digits \cup {"_", "@"}

Sub(s, i, j) == IF j < i THEN <<>> ELSE SubSeq(s, i, j)

\* first position >= i whose character is in S, Len(s)+1 when there is none
FindFirst(s, i, S) ==
    LET hits == {j \in i..Len(s) : s[j] \in S}
    IN  IF hits = {} THEN Len(s) + 1
        ELSE CHOOSE j \in hits : \A k \in hits : j <= k

\* first position >= i whose character is not in S, Len(s)+1 when there is none
SpanEnd(s, i, S) ==
    LET stops == {j \in i..Len(s) : s[j] \notin S}
    IN  IF stops = {} THEN Len(s) + 1
        ELSE CHOOSE j \in stops : \A k \in stops : j <= k

\* nothing removed
TrimNothing(s) == s

\* String.prototype.trim
trim(s) ==
    LET keep == {j \in 1..Len(s) : s[j] \notin WhiteSpace}
    IN  IF keep = {} THEN <<>>
        ELSE Sub(s, CHOOSE j \in keep : \A k \in keep : j <= k,
                    CHOOSE j \in keep : \A k \in keep : j >= k)

\* s.replace(/\r$/, "")
StripCR(s) == IF Len(s) > 0 /\ s[Len(s)] = "\r" THEN Sub(s, 1, Len(s) - 1) ELSE s

DigitVal(c) ==
    CASE c = "0" -> 0 [] c = "1" -> 1 [] c = "2" -> 2 [] c = "3" -> 3
      [] c = "4" -> 4 [] c = "5" -> 5 [] c = "6" -> 6 [] c = "7" -> 7
      [] c = "8" -> 8 [] c = "9" -> 9

\* parseInt(s, 10) of a text of digits
RECURSIVE parseInt(_)
parseInt(s) ==
    IF s = <<>> THEN 0
    ELSE 10 * parseInt(Sub(s, 1, Len(s) - 1)) + DigitVal(s[Len(s)])

\* s.split(/\s+/)
RECURSIVE SplitFrom(_, _)
SplitFrom(s, i) ==
    LET j == FindFirst(s, i, WhiteSpace)
    IN  IF j > Len(s) THEN <<Sub(s, i, Len(s))>>
        ELSE <<Sub(s, i, j - 1)>> \o SplitFrom(s, SpanEnd(s, j, WhiteSpace))
split(s) == SplitFrom(s, 1)

\* tokens.join(" ")
RECURSIVE join(_)
join(tokens) ==
    IF tokens = <<>> THEN <<>>
    ELSE IF Len(tokens) = 1 THEN tokens[1]
    ELSE tokens[1] \o <<" ">> \o join(Tail(tokens))

(***************************************************************************)
(* parseLine                                                               *)
(***************************************************************************)
NoMatch == [ok |-> FALSE]

\* ([A-Za-z0-9_@]+)(?:\s(.*))?$ matched at position pos, with m[2] = m2
MatchTail(line, pos, m1, m2) ==
    LET e == SpanEnd(line, pos, TagChars)
    IN  IF e = pos THEN NoMatch
        ELSE IF e = Len(line) + 1
             THEN [ok |-> TRUE, m1 |-> m1, m2 |-> m2,
                   m3 |-> Sub(line, pos, e - 1), m4 |-> Undefined]
        ELSE IF /\ line[e] \in WhiteSpace
                /\ \A k \in (e + 1)..Len(line) : line[k] \notin LineTerminators
             THEN [ok |-> TRUE, m1 |-> m1, m2 |-> m2,
                   m3 |-> Sub(line, pos, e - 1),
                   m4 |-> Def(Sub(line, e + 1, Len(line)))]
        ELSE NoMatch

\* line.match(/^(\d+)\s+(?:(@[^@]+@)\s+)?([A-Za-z0-9_@]+)(?:\s(.*))?$/)
LineMatch(line) ==
    LET e1 == SpanEnd(line, 1, Digits)
        e2 == SpanEnd(line, e1, WhiteSpace)
        m1 == Sub(line, 1, e1 - 1)
        q  == FindFirst(line, e2 + 1, {"@"})
        e4 == SpanEnd(line, q + 1, WhiteSpace)
        withId == IF /\ e2 <= Len(line) /\ line[e2] = "@"
                     /\ q <= Len(line) /\ q >= e2 + 2
                     /\ e4 > q + 1
                  THEN MatchTail(line, e4, m1, Def(Sub(line, e2, q)))
                  ELSE NoMatch
    IN  IF e1 = 1 \/ e2 = e1 THEN NoMatch
        ELSE IF withId.ok THEN withId
        ELSE MatchTail(line, e2, m1, Undefined)

parseLine(rawLine) ==
    LET line == StripCR(rawLine)
        m == LineMatch(line)
        tokens == Tail(split(line))
    IN  IF trim(line) = <<>> THEN [kind |-> "null"]
        ELSE IF ~m.ok THEN [kind |-> "invalid", raw |-> line]
        ELSE IF IsDef(m.m2)
             THEN [kind |-> "record", level |-> parseInt(m.m1),
                   pointer |-> m.m2, tag |-> Def(m.m3), value |-> m.m4,
                   raw |-> line]
        ELSE IF /\ Len(tokens) >= 2
                /\ tokens[1] # <<>>
                /\ tokens[1][1] = "@"
                /\ tokens[1][Len(tokens[1])] = "@"
                /\ tokens[2] # <<>>
             THEN LET rest == join(Sub(tokens, 3, Len(tokens)))
                  IN  [kind |-> "record", level |-> parseInt(m.m1),
                       pointer |-> Def(tokens[1]), tag |-> Def(tokens[2]),
                       value |-> IF rest = <<>> THEN Undefined ELSE Def(rest),
                       raw |-> line]
        ELSE [kind |-> "record", level |-> parseInt(m.m1),
              pointer |-> Undefined, tag |-> Def(m.m3), value |-> m.m4,
              raw |-> line]

(***************************************************************************)
(* Nodes and the default node factory                                      *)
(***************************************************************************)
Txt_INDI == <<"I", "N", "D", "I">>
Txt_FAM == <<"F", "A", "M">>
Txt_MARR == <<"M", "A", "R", "R">>
Txt_DIV == <<"D", "I", "V">>
Txt_PLAC == <<"P", "L", "A", "C">>
Txt_CONC == <<"C", "O", "N", "C">>
Txt_CONT == <<"C", "O", "N", "T">>
Txt_DATE == <<"D", "A", "T", "E">>
Txt_NAME == <<"N", "A", "M", "E">>
Txt_GIVN == <<"G", "I", "V", "N">>
Txt_SURN == <<"S", "U", "R", "N">>
Txt_HUSB == <<"H", "U", "S", "B">>
Txt_WIFE == <<"W", "I", "F", "E">>
Txt_CHIL == <<"C", "H", "I", "L">>
Txt_undefined == <<"u", "n", "d", "e", "f", "i", "n", "e", "d">>
Txt_object == <<"[", "o", "b", "j", "e", "c", "t", " ", "O", "b", "j", "e", "c", "t", "]">>

LowerSeq == <<"a", "b", "c", "d", "e", "f", "g", "h", "i", "j", "k", "l", "m",
              "n", "o", "p", "q", "r", "s", "t", "u", "v", "w", "x", "y", "z">>
UpperSeq == <<"A", "B", "C", "D", "E", "F", "G", "H", "I", "J", "K", "L", "M",
              "N", "O", "P", "Q", "R", "S", "T", "U", "V", "W", "X", "Y", "Z">>

\* the letters are left as they are
SameCase(s) == s

\* String.prototype.toUpperCase
toUpperCase(s) ==
    [i \in 1..Len(s) |->
        IF s[i] \in Lower
        THEN UpperSeq[CHOOSE k \in 1..26 : LowerSeq[k] = s[i]]
        ELSE s[i]]

\* the decoded value of a node that has none
NoValue == [kind |-> "undefined"]

\* BaseNode.constructor (parent ?? null is 0; the meta bag is not modelled,
\* the core never reads it)
BaseNode(variant, tag, rawValue) ==
    [variant |-> variant, id |-> Undefined, tag |-> tag, rawValue |-> rawValue,
     value |-> NoValue, children |-> <<>>, parent |-> 0]

\* createDefaultNodeFactory: tag and rawValue are optional values
createDefaultNodeFactory(tag, rawValue) ==
    LET t == toUpperCase(IF IsDef(tag) THEN Val(tag) ELSE <<>>)
    IN  IF t = Txt_INDI THEN BaseNode("IndividualNode", tag, rawValue)
        ELSE IF t = Txt_FAM THEN BaseNode("FamilyGroupNode", tag, rawValue)
        ELSE IF t = Txt_MARR THEN BaseNode("MarriageNode", tag, rawValue)
        ELSE IF t = Txt_DIV THEN BaseNode("DivorceNode", tag, rawValue)
        ELSE IF t = Txt_PLAC THEN BaseNode("PlaceNode", tag, rawValue)
        ELSE BaseNode("BaseNode", tag, rawValue)

(***************************************************************************)
(* The tree builder: Parser.feed and Parser.attach                         *)
(***************************************************************************)
\* the nearest entry at or below i that is set
StackAtNearest(stk, i) ==
    LET open == {j \in 1..Len(stk) : IsDef(i) /\ j <= Val(i) + 1 /\ stk[j] # 0}
    IN  IF open = {} THEN 0
        ELSE stk[CHOOSE j \in open : \A k \in open : j >= k]

\* this.stack[i]; i is an optional number, stack[undefined - 1] is undefined
StackAt(stk, i) ==
    IF IsDef(i) /\ Val(i) >= 0 /\ Val(i) + 1 <= Len(stk) THEN stk[Val(i) + 1] ELSE 0

\* this.stack[level] = node, and the entries above level stay
StackSetOnly(stk, level, n) ==
    IF ~IsDef(level) THEN stk
    ELSE LET L == Val(level)
             len == IF L + 1 > Len(stk) THEN L + 1 ELSE Len(stk)
         IN  [j \in 1..len |->
                 IF j = L + 1 THEN n
                 ELSE IF j <= Len(stk) THEN stk[j] ELSE 0]

\* this.stack[level] = node, then every entry above level is cleared.  With an
\* undefined level the write goes to the property "undefined", which no
\* indexed read sees, and the loop does not run.
StackSet(stk, level, n) ==
    IF ~IsDef(level) THEN stk
    ELSE LET L == Val(level)
             len == IF L + 1 > Len(stk) THEN L + 1 ELSE Len(stk)
         IN  [j \in 1..len |->
                 IF j = L + 1 THEN n
                 ELSE IF j > L + 1 THEN 0
                 ELSE IF j <= Len(stk) THEN stk[j] ELSE 0]

\* byId[key], 0 when the key is absent
Lookup(index, key) ==
    IF \E i \in 1..Len(index) : index[i][1] = key
    THEN index[CHOOSE i \in 1..Len(index) : index[i][1] = key][2]
    ELSE 0

\* byId[key] = n: a new key is added last, an old key keeps its place
IndexFirstWins(index, key, n) ==
    IF \E i \in 1..Len(index) : index[i][1] = key
    THEN index
    ELSE Append(index, <<key, n>>)

IndexPut(index, key, n) ==
    IF \E i \in 1..Len(index) : index[i][1] = key
    THEN [i \in 1..Len(index) |->
             IF index[i][1] = key THEN <<key, n>> ELSE index[i]]
    ELSE Append(index, <<key, n>>)

\* Parser.attach: the new node is the last of ns; the result is the new
\* <<nodes, roots, stack>>; MinusOne(level) is level - 1
MinusOne(level) == IF IsDef(level) THEN Def(Val(level) - 1) ELSE Undefined

AttachFront(ns, rts, stk, level) ==
    LET n == Len(ns)
        parent == StackAt(stk, MinusOne(level))
    IN  IF level = Def(0) THEN <<ns, <<n>> \o rts, StackSet(stk, level, n)>>
        ELSE IF parent # 0
             THEN <<[ns EXCEPT ![n].parent = parent,
                               ![parent].children = <<n>> \o @],
                    rts, StackSet(stk, level, n)>>
        ELSE <<ns, <<n>> \o rts, StackSet(stk, level, n)>>

AttachNearest(ns, rts, stk, level) ==
    LET n == Len(ns)
        open == {i \in 1..Len(stk) : stk[i] # 0 /\ IsDef(level) /\ i <= Val(level)}
        parent == IF open = {} THEN 0
                  ELSE stk[CHOOSE i \in open : \A k \in open : i >= k]
    IN  IF level = Def(0) THEN <<ns, Append(rts, n), StackSet(stk, level, n)>>
        ELSE IF parent # 0
             THEN <<[ns EXCEPT ![n].parent = parent,
                               ![parent].children = Append(@, n)],
                    rts, StackSet(stk, level, n)>>
        ELSE <<ns, Append(rts, n), StackSet(stk, level, n)>>

attach(ns, rts, stk, level) ==
    LET n == Len(ns)
        parent == StackAt(stk, MinusOne(level))
    IN  IF level = Def(0) THEN <<ns, Append(rts, n), StackSet(stk, level, n)>>
        ELSE IF parent # 0
             THEN <<[ns EXCEPT ![n].parent = parent,
                               ![parent].children = Append(@, n)],
                    rts, StackSet(stk, level, n)>>
        ELSE <<ns, Append(rts, n), StackSet(stk, level, n)>>

\* the fields feed destructures from what parseLine returned; an invalid
\* marker has none of them
Field(parsed, f) ==
    IF parsed.kind # "record" THEN Undefined
    ELSE IF f = "level" THEN Def(parsed.level)
    ELSE parsed[f]

\* (tag === "CONC" || tag === "CONT") && level > 0
IsContinuation(parsed) ==
    /\ Field(parsed, "tag") \in {Def(Txt_CONC), Def(Txt_CONT)}
    /\ IsDef(Field(parsed, "level"))
    /\ Val(Field(parsed, "level")) > 0

\* what a continuation line appends
ContinuationText(parsed) ==
    LET value == Field(parsed, "value")
        append == IF IsDef(value) THEN Val(value) ELSE <<>>
    IN  IF Field(parsed, "tag") = Def(Txt_CONT) THEN <<"\n">> \o append ELSE append

\* x += append, where x is an optional text: undefined becomes "undefined"
PlusAssignTrimmed(x, append) ==
    Def(trim((IF IsDef(x) THEN Val(x) ELSE Txt_undefined) \o append))

PlusAssign(x, append) ==
    Def((IF IsDef(x) THEN Val(x) ELSE Txt_undefined) \o append)

\* the CONC/CONT branch of feed on the open node parent (parent.value += append
\* runs only when a value is there: none is before finish)
Continue(ns, parent, append) ==
    LET n1 == [ns EXCEPT ![parent].rawValue = PlusAssign(@, append)]
    IN  IF n1[parent].value.kind = "undefined" THEN n1
        ELSE IF n1[parent].value.kind = "string"
        THEN [n1 EXCEPT ![parent].value.text = @ \o append]
        ELSE [n1 EXCEPT ![parent].value =
                 [kind |-> "string", text |-> Txt_object \o append]]

\* the Parser fields feed reads and writes
Builder(ns, rts, stk, index) ==
    [nodes |-> ns, roots |-> rts, stack |-> stk, byId |-> index]

\* Parser.feed on the builder b: the builder after the call (b) and what the
\* call did (did: <<"skip", 0>>, <<"cont", target or 0>>, <<"node", new node>>)
feed(b, rawLine) ==
    LET parsed == parseLine(rawLine)
        level == Field(parsed, "level")
        pointer == Field(parsed, "pointer")
        tag == Field(parsed, "tag")
        value == Field(parsed, "value")
    IN  IF parsed.kind = "null"
        THEN [b |-> b, did |-> <<"skip", 0>>]
        ELSE IF IsContinuation(parsed)
        THEN LET parent == StackAt(b.stack, MinusOne(level))
             IN  [b |-> IF parent # 0
                        THEN [b EXCEPT !.nodes =
                                 Continue(@, parent, ContinuationText(parsed))]
                        ELSE b,
                  did |-> <<"cont", parent>>]
        ELSE LET node == [createDefaultNodeFactory(tag, value)
                             EXCEPT !.id = pointer]
                 att == attach(Append(b.nodes, node), b.roots, b.stack, level)
             IN  [b |-> Builder(att[1], att[2], att[3],
                                IF IsDef(pointer) /\ Val(pointer) # <<>>
                                THEN IndexPut(b.byId, Val(pointer), Len(b.nodes) + 1)
                                ELSE b.byId),
                  did |-> <<"node", Len(b.nodes) + 1>>]

\* one call parser.feed(line) of the loop of parseGedcomSync
Feed(rawLine) ==
    /\ pc = "feed"
    /\ Len(fed) < MaxLines
    /\ fed' = Append(fed, rawLine)
    /\ UNCHANGED <<options, pc, input, buffer>>
    /\ \E r \in {feed(Builder(nodes, roots, stack, byId), rawLine)} :
           /\ nodes' = r.b.nodes
           /\ roots' = r.b.roots
           /\ stack' = r.b.stack
           /\ byId' = r.b.byId
           /\ log' = Append(log, r.did)

\* the loop of parseGedcomSync over lines: the builder after all of them
RECURSIVE Built(_)
Built(lines) ==
    IF lines = <<>> THEN Builder(<<>>, <<>>, <<>>, <<>>)
    ELSE feed(Built(Sub(lines, 1, Len(lines) - 1)), lines[Len(lines)]).b

(***************************************************************************)
(* The decoders and the decode pass                                        *)
(***************************************************************************)
\* !node.rawValue
IsFalsyText(o) == ~IsDef(o) \/ Val(o) = <<>>

monthMap == <<<<"J", "A", "N">>, <<"F", "E", "B">>, <<"M", "A", "R">>,
              <<"A", "P", "R">>, <<"M", "A", "Y">>, <<"J", "U", "N">>,
              <<"J", "U", "L">>, <<"A", "U", "G">>, <<"S", "E", "P">>,
              <<"O", "C", "T">>, <<"N", "O", "V">>, <<"D", "E", "C">>>>

\* a name outside the map taken as January
MonthOfOrJan(name) ==
    IF \E k \in 1..12 : monthMap[k] = name
    THEN Def((CHOOSE k \in 1..12 : monthMap[k] = name) - 1)
    ELSE Def(0)

\* monthMap[name]: the month number 0..11, or undefined
MonthOf(name) ==
    IF \E k \in 1..12 : monthMap[k] = name
    THEN Def((CHOOSE k \in 1..12 : monthMap[k] = name) - 1)
    ELSE Undefined

IsLeap(y) == (y % 4 = 0 /\ y % 100 # 0) \/ y % 400 = 0

DaysIn(y, m) ==
    IF m = 1 THEN (IF IsLeap(y) THEN 29 ELSE 28)
    ELSE IF m \in {3, 5, 8, 10} THEN 30
    ELSE 31

\* the calendar date a day number outside the month rolls over to
RECURSIVE MakeDay(_, _, _)
MakeDay(y, m, d) ==
    IF d < 1
    THEN LET py == IF m = 0 THEN y - 1 ELSE y
             pm == IF m = 0 THEN 11 ELSE m - 1
         IN  MakeDay(py, pm, d + DaysIn(py, pm))
    ELSE IF d > DaysIn(y, m)
    THEN MakeDay(IF m = 11 THEN y + 1 ELSE y, IF m = 11 THEN 0 ELSE m + 1,
                 d - DaysIn(y, m))
    ELSE [year |-> y, month |-> m, day |-> d]

\* new Date(year, month, day), read back by getFullYear/getMonth/getDate:
\* a year 0..99 means 1900 + year
NewDate(year, month, day) ==
    MakeDay(IF year >= 0 /\ year <= 99 THEN 1900 + year ELSE year, month, day)

AllIn(s, i, j, S) == \A k \in i..j : s[k] \in S

\* /^([0-9]{1,2}) ([A-Z]{3}) ([0-9]{4})$/ : the length of the day group, 0 for
\* no match
DayShape(text) ==
    LET dl == Len(text) - 9
    IN  IF /\ dl \in {1, 2}
           /\ AllIn(text, 1, dl, Digits)
           /\ text[dl + 1] = " "
           /\ AllIn(text, dl + 2, dl + 4, Upper)
           /\ text[dl + 5] = " "
           /\ AllIn(text, dl + 6, dl + 9, Digits)
        THEN dl ELSE 0

\* /^([A-Z]{3}) ([0-9]{4})$/
MonthShape(text) ==
    /\ Len(text) = 8
    /\ AllIn(text, 1, 3, Upper)
    /\ text[4] = " "
    /\ AllIn(text, 5, 8, Digits)

\* /^([0-9]{4})$/
YearShape(text) == Len(text) = 4 /\ AllIn(text, 1, 4, Digits)

GedcomDate(text, parsed, precision) ==
    [kind |-> "date", text |-> text, parsed |-> parsed,
     precision |-> IF IsDef(parsed) THEN precision ELSE Undefined]

dateDecoder(node) ==
    IF IsFalsyText(node.rawValue) THEN NoValue
    ELSE LET text == trim(Val(node.rawValue))
             dl == DayShape(text)
         IN  IF dl > 0
             THEN LET day == parseInt(Sub(text, 1, dl))
                      month == MonthOf(toUpperCase(Sub(text, dl + 2, dl + 4)))
                      year == parseInt(Sub(text, dl + 6, dl + 9))
                  IN  IF IsDef(month)
                      THEN GedcomDate(text, Def(NewDate(year, Val(month), day)),
                                      Def("day"))
                      ELSE GedcomDate(text, Undefined, Undefined)
             ELSE IF MonthShape(text)
             THEN LET month == MonthOf(toUpperCase(Sub(text, 1, 3)))
                      year == parseInt(Sub(text, 5, 8))
                  IN  IF IsDef(month)
                      THEN GedcomDate(text, Def(NewDate(year, Val(month), 1)),
                                      Def("month"))
                      ELSE GedcomDate(text, Undefined, Undefined)
             ELSE IF YearShape(text)
             THEN GedcomDate(text, Def(NewDate(parseInt(text), 0, 1)), Def("year"))
             ELSE GedcomDate(text, Undefined, Undefined)

\* s.replace(/\//g, "")
RemoveSlashes(s) == SelectSeq(s, LAMBDA c : c # "/")

\* s.match(/\/(.*?)\//): m[1], or undefined
SurnameMatch(s) ==
    LET starts == {i \in 1..Len(s) :
                      /\ s[i] = "/"
                      /\ LET j == FindFirst(s, i + 1, {"/"})
                         IN  /\ j <= Len(s)
                             /\ \A k \in (i + 1)..(j - 1) : s[k] \notin LineTerminators}
    IN  IF starts = {} THEN Undefined
        ELSE LET i == CHOOSE a \in starts : \A b \in starts : a <= b
             IN  Def(Sub(s, i + 1, FindFirst(s, i + 1, {"/"}) - 1))

nameDecoder(node) ==
    IF IsFalsyText(node.rawValue) THEN NoValue
    ELSE [kind |-> "name",
          display |-> trim(RemoveSlashes(Val(node.rawValue))),
          surname |-> SurnameMatch(Val(node.rawValue))]

\* createDefaultRegistry().get(tag): the name of the decoder, or undefined
createDefaultRegistry(tag) ==
    IF tag = Def(Txt_DATE) THEN Def("dateDecoder")
    ELSE IF tag = Def(Txt_NAME) THEN Def("nameDecoder")
    ELSE Undefined

\* /^@.+@$/.test(s)
IsPointerText(s) ==
    /\ Len(s) >= 3
    /\ s[1] = "@"
    /\ s[Len(s)] = "@"
    /\ \A k \in 2..(Len(s) - 1) : s[k] \notin LineTerminators

GedcomPointer(pointer, ref) == [kind |-> "pointer", pointer |-> pointer, ref |-> ref]

\* the body of walk in applyDecoders for one node: its new decoded value
Decode(node) ==
    IF ~IsDef(node.rawValue) THEN node.value
    ELSE LET decoder == createDefaultRegistry(node.tag)
             pv == Val(node.rawValue)
         IN  IF decoder = Def("dateDecoder") THEN dateDecoder(node)
             ELSE IF decoder = Def("nameDecoder") THEN nameDecoder(node)
             ELSE IF IsPointerText(trim(pv)) THEN GedcomPointer(pv, 0)
             ELSE [kind |-> "string", text |-> pv]

\* the nodes of list decoded, their children left alone
RECURSIVE WalkRootsOnly(_, _)
WalkRootsOnly(ns, list) ==
    IF list = <<>> THEN ns
    ELSE WalkRootsOnly([ns EXCEPT ![Head(list)].value = Decode(ns[Head(list)])],
                       Tail(list))

\* the calls of walk that applyDecoders makes for list, in order: a node,
\* then its children, then the next node of list
RECURSIVE walkOrder(_, _)
walkOrder(ns, list) ==
    IF list = <<>> THEN <<>>
    ELSE <<Head(list)>> \o walkOrder(ns, ns[Head(list)].children)
                       \o walkOrder(ns, Tail(list))

\* applyDecoders: walk(n) for every n of list, in order
RECURSIVE walk(_, _)
walk(ns, list) ==
    IF list = <<>> THEN ns
    ELSE LET n == Head(list)
             n1 == [ns EXCEPT ![n].value = Decode(ns[n])]
         IN  walk(walk(n1, n1[n].children), Tail(list))

applyDecoders(ns, rts) == walk(ns, rts)

(***************************************************************************)
(* The pointer resolution pass                                             *)
(***************************************************************************)
\* the truth value of n.value
IsTruthyValue(v) ==
    /\ v.kind # "undefined"
    /\ v.kind = "string" => v.text # <<>>

\* the truth value of n.value.pointer
HasPointer(v) == v.kind = "pointer" /\ v.pointer # <<>>

\* the loop body with the second block building a Pointer without reference
ResolveNodeNoRef(ns, index, n) ==
    LET v == ns[n].value
        n1 == IF IsTruthyValue(v) /\ v.kind # "string" /\ HasPointer(v)
                 /\ Lookup(index, v.pointer) # 0
              THEN [ns EXCEPT ![n].value.ref = Lookup(index, v.pointer)]
              ELSE ns
        v1 == n1[n].value
        pv == trim(Val(n1[n].rawValue))
    IN  IF /\ v1.kind = "undefined" \/ (IsTruthyValue(v1) /\ ~HasPointer(v1))
           /\ ~IsFalsyText(n1[n].rawValue)
           /\ IsPointerText(pv)
           /\ Lookup(index, pv) # 0
        THEN [n1 EXCEPT ![n].value = GedcomPointer(pv, 0)]
        ELSE n1

\* the loop body of resolvePointers for the node n
ResolveNode(ns, index, n) ==
    LET v == ns[n].value
        n1 == IF IsTruthyValue(v) /\ v.kind # "string" /\ HasPointer(v)
                 /\ Lookup(index, v.pointer) # 0
              THEN [ns EXCEPT ![n].value.ref = Lookup(index, v.pointer)]
              ELSE ns
        v1 == n1[n].value
        pv == trim(Val(n1[n].rawValue))
    IN  IF /\ v1.kind = "undefined" \/ (IsTruthyValue(v1) /\ ~HasPointer(v1))
           /\ ~IsFalsyText(n1[n].rawValue)
           /\ IsPointerText(pv)
           /\ Lookup(index, pv) # 0
        THEN [n1 EXCEPT ![n].value = GedcomPointer(pv, Lookup(index, pv))]
        ELSE n1

\* the while loop of resolvePointers: pop, resolve, push the children
RECURSIVE ResolveStack(_, _, _)
ResolveStack(ns, index, stk) ==
    IF stk = <<>> THEN ns
    ELSE LET n == stk[Len(stk)]
             n1 == ResolveNode(ns, index, n)
         IN  ResolveStack(n1, index, Sub(stk, 1, Len(stk) - 1) \o n1[n].children)

\* for (const id in result.byId), from the i-th key on
RECURSIVE ResolveFrom(_, _, _, _)
ResolveFrom(ns, rts, index, i) ==
    IF i > Len(index) THEN ns
    ELSE ResolveFrom(ResolveStack(ns, index, <<index[i][2]>>), rts, index, i + 1)

resolvePointers(ns, rts, index) == ResolveFrom(ns, rts, index, 1)

(***************************************************************************)
(* Node helpers                                                            *)
(***************************************************************************)
\* BaseNode.childrenReferences
childrenReferences(ns, n, tag) ==
    LET kept == SelectSeq(ns[n].children,
                    LAMBDA c : /\ ns[c].tag = Def(tag)
                               /\ ns[c].value.kind = "pointer"
                               /\ ns[c].value.ref # 0)
    IN  [i \in 1..Len(kept) |-> ns[kept[i]].value.ref]

\* FamilyGroupNode.getHusband: 0 when there is none
getHusband(ns, n) ==
    LET refs == childrenReferences(ns, n, Txt_HUSB)
    IN  IF refs = <<>> THEN 0 ELSE refs[1]

\* FamilyGroupNode.getChildren
getChildren(ns, n) == childrenReferences(ns, n, Txt_CHIL)

(***************************************************************************)
(* Parser.finish and the result's resolvePointers helper                   *)
(***************************************************************************)
\* this.options.resolvePointers ?? true
ResolveWanted == IF IsDef(options.resolvePointers) THEN Val(options.resolvePointers) ELSE TRUE

\* the lines of the input are given one at a time to parseGedcomSync's loop
LineInput ==
    [kind |-> "lines", text |-> <<>>, pos |-> 0, done |-> FALSE,
     failed |-> FALSE]

\* finish may be called at any time
NeverWaits == TRUE

\* the loop over the lines has ended
Drained == input.kind = "lines" \/ input.done

Finish ==
    /\ pc = "feed"
    /\ Drained
    /\ pc' = IF ResolveWanted THEN "resolved" ELSE "decoded"
    /\ LET decoded == applyDecoders(nodes, roots)
       IN  nodes' = IF ResolveWanted THEN resolvePointers(decoded, roots, byId)
                    ELSE decoded
    /\ UNCHANGED <<roots, stack, byId, options, fed, log, input, buffer>>

\* result.resolvePointers(), called by the holder of the parse result
ResolveAgain ==
    /\ pc \in {"decoded", "resolved"}
    /\ pc' = "resolved"
    /\ nodes' = resolvePointers(nodes, roots, byId)
    /\ UNCHANGED <<roots, stack, byId, options, fed, log, input, buffer>>

(***************************************************************************)
(* Inputs, the initial state and the specifications                        *)
(***************************************************************************)
\* lines that exercise the tree builder
Line_INDI == <<"0", " ", "I", "N", "D", "I">>
Line_NOTE_ab == <<"0", " ", "N", "O", "T", "E", " ", "a", "b">>
Line_1_NAME_a == <<"1", " ", "N", "A", "M", "E", " ", "a", " ">>
Line_1_NOTE == <<"1", " ", "N", "O", "T", "E">>
Line_1_CONC_c == <<"1", " ", "C", "O", "N", "C", " ", "c">>
Line_1_CONT_d == <<"1", " ", "C", "O", "N", "T", " ", " ", "d", "\r">>
Line_2_CONT == <<"2", " ", "C", "O", "N", "T">>
Line_2_CONC_e == <<"2", " ", "C", "O", "N", "C", " ", "e">>
Line_2_DATE == <<"2", " ", "D", "A", "T", "E", " ", "1", "9", "2", "5">>
Line_X_INDI == <<"X", " ", "I", "N", "D", "I">>
Line_blank == <<" ", "\r">>

TreeLines == {Line_INDI, Line_NOTE_ab, Line_1_NAME_a, Line_1_NOTE,
              Line_1_CONC_c, Line_1_CONT_d, Line_2_CONT, Line_2_CONC_e,
              Line_2_DATE, Line_X_INDI, Line_blank}

\* lines that exercise ids and pointers
Line_I1_INDI == <<"0", " ", "@", "I", "1", "@", " ", "I", "N", "D", "I">>
Line_F1_FAM == <<"0", " ", "@", "F", "1", "@", " ", "F", "A", "M">>
Line_I1_FAM == <<"0", " ", "@", "I", "1", "@", " ", "F", "A", "M">>
Line_HEAD == <<"0", " ", "H", "E", "A", "D">>
Line_FAMS_F1 == <<"1", " ", "F", "A", "M", "S", " ", "@", "F", "1", "@">>
Line_HUSB_I1 == <<"1", " ", "H", "U", "S", "B", " ", "@", "I", "1", "@">>
Line_HUSB_I1sp == <<"1", " ", "H", "U", "S", "B", " ", "@", "I", "1", "@", " ">>
Line_CHIL_I2 == <<"1", " ", "C", "H", "I", "L", " ", "@", "I", "2", "@">>
Line_NAME_I1 == <<"1", " ", "N", "A", "M", "E", " ", "@", "I", "1", "@">>

PointerLines == {Line_I1_INDI, Line_F1_FAM, Line_I1_FAM, Line_HEAD,
                 Line_FAMS_F1, Line_HUSB_I1, Line_HUSB_I1sp, Line_CHIL_I2,
                 Line_NAME_I1}

\* new Parser(options): nodeFactory and registry are left to their defaults
Init ==
    /\ nodes = <<>>
    /\ roots = <<>>
    /\ stack = <<>>
    /\ byId = <<>>
    /\ options \in {[resolvePointers |-> r] : r \in {Undefined, Def(TRUE), Def(FALSE)}}
    /\ pc = "feed"
    /\ fed = <<>>
    /\ log = <<>>
    /\ input = LineInput
    /\ buffer = <<>>

FeedTree == \E l \in TreeLines : Feed(l)
FeedPointer == \E l \in PointerLines : Feed(l)

Next == FeedTree \/ Finish \/ ResolveAgain
NextPointer == FeedPointer \/ Finish \/ ResolveAgain

Spec == Init /\ [][Next]_vars
SpecPointer == Init /\ [][NextPointer]_vars

\* lines that exercise what feed passes over: empty and blank lines, a
\* continuation with nothing to continue, a line outside the grammar
Line_0_CONC_x == <<"0", " ", "C", "O", "N", "C", " ", "x">>
Line_empty == <<>>
Line_CR == <<"\r">>

EdgeLines == {Line_INDI, Line_1_NOTE, Line_1_CONT_d, Line_2_CONC_e,
              Line_0_CONC_x, Line_empty, Line_CR, Line_blank, Line_X_INDI}

\* new Parser(options) with an options object that may also carry a strict
\* property; ParseOptions declares none and the parser reads none
InitEdge ==
    /\ nodes = <<>>
    /\ roots = <<>>
    /\ stack = <<>>
    /\ byId = <<>>
    /\ options \in {[resolvePointers |-> r, strict |-> s] :
                       r \in {Undefined, Def(TRUE), Def(FALSE)},
                       s \in {Undefined, Def(TRUE)}}
    /\ pc = "feed"
    /\ fed = <<>>
    /\ log = <<>>
    /\ input = LineInput
    /\ buffer = <<>>

FeedEdge == \E l \in EdgeLines : Feed(l)
NextEdge == FeedEdge \/ Finish \/ ResolveAgain
SpecEdge == InitEdge /\ [][NextEdge]_vars

\* texts for the DATE decoder: every choice of a day, a month word and a year,
\* the parts that are there joined by one blank, and some padded texts
DayParts == {<<>>, <<"1">>, <<"1", "2">>, <<"1", "2", "3">>}
MonthParts == {<<>>, <<"M", "A", "R">>, <<"F", "E", "B">>, <<"m", "a", "r">>,
               <<"M", "a", "r">>, <<"A", "B", "T">>, <<"X", "Y", "Z">>}
YearParts == {<<>>, <<"1", "9", "2", "5">>, <<"0", "0", "5", "0">>,
              <<"1", "9", "2">>}

DateTexts ==
    {join(SelectSeq(<<d, mo, y>>, LAMBDA part : part # <<>>)) :
        d \in DayParts, mo \in MonthParts, y \in YearParts}
    \cup {<<" ", "1", "9", "2", "5", " ">>,
          <<"\t", "M", "A", "R", " ", "1", "9", "2", "5">>,
          <<"1", "2", " ", " ", "M", "A", "R", " ", "1", "9", "2", "5">>,
          <<" ">>}

\* texts for the NAME decoder
NameTexts == {<<>>, <<"a", " ", "/", "b", "/">>, <<"/", "b", "/", " ", "a">>,
              <<"a", "/", "b">>, <<"/", "a", "/", "b", "/">>, <<" ", "a", " ">>,
              <<"/", "/">>, <<"/", "a">>}

\* the level-0 lines "0 DATE", "0 NAME" and "0 DATE text", "0 NAME text",
\* and the name parts "0 GIVN text", "0 SURN text"
DecodeLines ==
    {<<"0", " ">> \o tag : tag \in {Txt_DATE, Txt_NAME}}
    \cup {<<"0", " ">> \o Txt_DATE \o <<" ">> \o t : t \in DateTexts}
    \cup {<<"0", " ">> \o tag \o <<" ">> \o t :
              tag \in {Txt_NAME, Txt_GIVN, Txt_SURN}, t \in NameTexts}

\* the continuation lines "1 CONT b/" and "1 CONC 5"
DecodeContinuations == {<<"1", " ">> \o Txt_CONT \o <<" ", "b", "/">>,
                        <<"1", " ">> \o Txt_CONC \o <<" ", "5">>}

\* the input is a DATE or a NAME record followed by continuation lines
FeedDecode ==
    \E l \in IF fed = <<>> THEN DecodeLines ELSE DecodeContinuations : Feed(l)
NextDecode == FeedDecode \/ Finish \/ ResolveAgain
SpecDecode == Init /\ [][NextDecode]_vars

(***************************************************************************)
(* Vocabulary of the properties                                            *)
(***************************************************************************)
NodeIds == 1..Len(nodes)

\* the line that created node n, and the record parsed from it
DefLine(n) == CHOOSE i \in 1..Len(log) : log[i] = <<"node", n>>
DefRecord(n) == parseLine(fed[DefLine(n)])
DefValue(n) == IF DefRecord(n).kind = "record" THEN DefRecord(n).value ELSE Undefined

\* the continuation lines that were applied to node n
ContLines(n) == {i \in 1..Len(log) : log[i] = <<"cont", n>>}

\* what one continuation line contributes: its value for CONC, a newline and
\* its value for CONT, an absent value counting as empty
Contribution(line) ==
    LET p == parseLine(line)
        v == IF IsDef(p.value) THEN Val(p.value) ELSE <<>>
    IN  IF p.tag = Def(Txt_CONT) THEN <<"\n">> \o v ELSE v

\* the contributions to node n of the lines i.., in source order
RECURSIVE Contributions(_, _)
Contributions(n, i) ==
    IF i > Len(fed) THEN <<>>
    ELSE (IF i \in ContLines(n) THEN Contribution(fed[i]) ELSE <<>>)
         \o Contributions(n, i + 1)

\* the step feeds one line; FedLine is that line
IsFeedStep == Len(fed') = Len(fed) + 1
FedLine == fed'[Len(fed')]

\* a line that parses to a record and is not taken as a continuation
IsNormalRecord(line) ==
    LET p == parseLine(line)
    IN  /\ p.kind = "record"
        /\ ~(p.tag \in {Def(Txt_CONC), Def(Txt_CONT)} /\ p.level > 0)

\* every node but the (new) last one is as it was, except that p gained the
\* child c
OthersKept(p, c) ==
    \A k \in NodeIds :
        nodes'[k] = IF k = p THEN [nodes[k] EXCEPT !.children = Append(@, c)]
                    ELSE nodes[k]

(***************************************************************************)
(* C1: a normal record at level L becomes the last top-level node when     *)
(* L = 0, the last child of the node open at level L-1 (with its parent    *)
(* back-reference) when there is one, and the last top-level node without  *)
(* parent when L > 0 and no node is open at level L-1.                     *)
(***************************************************************************)
C1_AttachPlace ==
    [][(IsFeedStep /\ IsNormalRecord(FedLine)) =>
        LET L == parseLine(FedLine).level
            n == Len(nodes) + 1
            open == IF L > 0 /\ L <= Len(stack) THEN stack[L] ELSE 0
        IN  /\ Len(nodes') = n
            /\ pc' = "feed"
            /\ L = 0 =>
                 /\ roots' = Append(roots, n)
                 /\ nodes'[n].parent = 0
                 /\ OthersKept(0, n)
            /\ (L > 0 /\ open # 0) =>
                 /\ roots' = roots
                 /\ nodes'[n].parent = open
                 /\ OthersKept(open, n)
            /\ (L > 0 /\ open = 0) =>
                 /\ roots' = Append(roots, n)
                 /\ nodes'[n].parent = 0
                 /\ OthersKept(0, n)
    ]_vars

\* a level-2 record arrived with nothing open at level 1 and became top-level,
\* and another record became a child
C1_Witness ==
    /\ \E n \in NodeIds :
          /\ DefRecord(n).kind = "record" /\ DefRecord(n).level = 2
          /\ \E i \in 1..Len(roots) : roots[i] = n
    /\ \E n \in NodeIds : nodes[n].parent # 0

(***************************************************************************)
(* C2: the raw text of a node whose defining line carried a value v is v   *)
(* followed by the contributions of its continuation lines in source       *)
(* order, nothing trimmed, no separator inserted.                          *)
(***************************************************************************)
C2_AccumulatedText ==
    \A n \in NodeIds :
        IsDef(DefValue(n)) =>
            nodes[n].rawValue = Def(Val(DefValue(n)) \o Contributions(n, 1))

\* "0 NOTE ab", "1 CONT  d", "1 CONC c" gives "ab\n dc"
C2_Witness ==
    /\ fed = <<Line_NOTE_ab, Line_1_CONT_d, Line_1_CONC_c>>
    /\ ContLines(1) = {2, 3}
    /\ nodes[1].rawValue = Def(<<"a", "b", "\n", " ", "d", "c">>)

(***************************************************************************)
(* C3: the raw text of a node whose defining line carried no value, once   *)
(* it has received continuation lines, is made of their contributions      *)
(* only.                                                                   *)
(***************************************************************************)
C3_OnlyContributions ==
    \A n \in NodeIds :
        (~IsDef(DefValue(n)) /\ ContLines(n) # {}) =>
            nodes[n].rawValue = Def(Contributions(n, 1))

(***************************************************************************)
(* C4: a line that does not match the line grammar contributes no node:    *)
(* feeding it leaves the top-level list, the nodes with their children,    *)
(* the id index and the open-node stack as they were.                      *)
(***************************************************************************)
C4_InvalidLineSkipped ==
    [][(IsFeedStep /\ parseLine(FedLine).kind = "invalid") =>
        UNCHANGED <<nodes, roots, byId, stack>>]_vars

(***************************************************************************)
(* Vocabulary of the pointer properties                                    *)
(***************************************************************************)
RECURSIVE Subtree(_)
Subtree(n) ==
    {n} \cup UNION {Subtree(nodes[n].children[i]) : i \in 1..Len(nodes[n].children)}

\* the nodes reachable from the top-level list
Reachable == UNION {Subtree(roots[i]) : i \in 1..Len(roots)}

\* the nodes whose record carries the id
DefinedBy(id) == {k \in NodeIds : nodes[k].id = Def(id)}

IsPointer(n) == nodes[n].value.kind = "pointer"

(***************************************************************************)
(* C5: after the pointer resolution pass every node reachable from the     *)
(* top-level list whose decoded value is a Pointer with an id present in   *)
(* the id index has its reference set to the node the index holds.         *)
(***************************************************************************)
C5_EveryPointerResolved ==
    pc = "resolved" =>
        \A n \in Reachable :
            (IsPointer(n) /\ Lookup(byId, nodes[n].value.pointer) # 0) =>
                nodes[n].value.ref = Lookup(byId, nodes[n].value.pointer)

\* the children of r with the tag whose pointed-to id some record defines
Resolvable(r, tag) ==
    SelectSeq(nodes[r].children,
              LAMBDA c : /\ nodes[c].tag = Def(tag)
                         /\ IsPointer(c)
                         /\ DefinedBy(nodes[c].value.pointer) # {})

(***************************************************************************)
(* C6: when parseGedcomSync returns with resolvePointers true or omitted,  *)
(* every pointer-valued child of a top-level record that carries an id     *)
(* refers to a record of the pointed-to id if the input defines one and    *)
(* has no reference otherwise; getHusband and getChildren return the       *)
(* resolved targets in source order.                                       *)
(***************************************************************************)
C6_ChildPointersResolved ==
    (pc = "resolved" /\ ResolveWanted) =>
        \A i \in 1..Len(roots) :
            LET r == roots[i]
                husbands == Resolvable(r, Txt_HUSB)
                chil == Resolvable(r, Txt_CHIL)
            IN  IsDef(nodes[r].id) =>
                  /\ \A j \in 1..Len(nodes[r].children) :
                        LET c == nodes[r].children[j]
                        IN  IsPointer(c) =>
                              IF DefinedBy(nodes[c].value.pointer) = {}
                              THEN nodes[c].value.ref = 0
                              ELSE nodes[c].value.ref \in
                                       DefinedBy(nodes[c].value.pointer)
                  /\ getHusband(nodes, r) =
                        IF husbands = <<>> THEN 0
                        ELSE nodes[husbands[1]].value.ref
                  /\ getChildren(nodes, r) =
                        [j \in 1..Len(chil) |-> nodes[chil[j]].value.ref]

\* from the value before to the value after, only a Pointer's reference changed
OnlyRefSet(before, after) ==
    \/ after = before
    \/ /\ before.kind = "pointer"
       /\ after.kind = "pointer"
       /\ after.pointer = before.pointer

(***************************************************************************)
(* C7: once the decode pass has assigned the decoded values, the only      *)
(* later change to a decoded value is the resolution pass setting the      *)
(* reference inside a value that is already a Pointer.                     *)
(***************************************************************************)
C7_DecodedValueKept ==
    [][/\ pc = "decoded" =>
            \A n \in NodeIds : OnlyRefSet(nodes[n].value, nodes'[n].value)
       /\ (pc = "feed" /\ pc' = "resolved") =>
            \A n \in NodeIds :
                OnlyRefSet(applyDecoders(nodes, roots)[n].value, nodes'[n].value)
    ]_vars

(***************************************************************************)
(* C8: a node whose tag has no registered decoder and whose raw text is    *)
(* present decodes to a Pointer with the trimmed raw text as id and no     *)
(* reference when the trimmed raw text is a pointer id, and to the raw     *)
(* text itself otherwise.                                                  *)
(***************************************************************************)
C8_DefaultRule ==
    pc = "decoded" =>
        \A n \in NodeIds :
            (IsDef(nodes[n].rawValue) /\ nodes[n].tag \notin {Def(Txt_DATE), Def(Txt_NAME)}) =>
                LET raw == Val(nodes[n].rawValue)
                IN  IF IsPointerText(trim(raw))
                    THEN nodes[n].value = GedcomPointer(trim(raw), 0)
                    ELSE nodes[n].value = [kind |-> "string", text |-> raw]

\* the lines that created a node and carried the id
LinesWithId(id) ==
    {i \in 1..Len(fed) :
        /\ log[i][1] = "node"
        /\ parseLine(fed[i]).kind = "record"
        /\ parseLine(fed[i]).pointer = Def(id)}

\* the ids to ask about: on a line, in the index, or only pointed to
SomeIds ==
    {parseLine(fed[i]).pointer[1] :
        i \in {k \in 1..Len(fed) : /\ parseLine(fed[k]).kind = "record"
                                    /\ IsDef(parseLine(fed[k]).pointer)}}
    \cup {byId[i][1] : i \in 1..Len(byId)}
    \cup {<<"@", "I", "2", "@">>, <<"@", "F", "1", "@">>}

(***************************************************************************)
(* C9: the id index maps every id that appeared on a record line to the    *)
(* node created by the last such line, whose id field is the key; an id    *)
(* that appeared on no record line has no entry.                           *)
(***************************************************************************)
C9_LastIdWins ==
    /\ \A i, j \in 1..Len(byId) : byId[i][1] = byId[j][1] => i = j
    /\ \A id \in SomeIds :
          LET lines == LinesWithId(id)
          IN  IF lines = {} THEN Lookup(byId, id) = 0
              ELSE LET last == CHOOSE i \in lines : \A k \in lines : i >= k
                   IN  /\ Lookup(byId, id) = log[last][2]
                       /\ nodes[log[last][2]].id = Def(id)

\* an id was used by two record lines
C9_Witness ==
    \E id \in SomeIds : Cardinality(LinesWithId(id)) >= 2

InSourceOrder(list) ==
    \A i, j \in 1..Len(list) : i < j => DefLine(list[i]) < DefLine(list[j])

Occurrences(n) ==
    Cardinality({i \in 1..Len(roots) : roots[i] = n})
    + Cardinality({<<p, i>> \in NodeIds \X (1..MaxLines + 1) :
                      i <= Len(nodes[p].children) /\ nodes[p].children[i] = n})

ListsInSourceOrder ==
    /\ InSourceOrder(roots)
    /\ \A n \in NodeIds : InSourceOrder(nodes[n].children)
    /\ \A n \in NodeIds : Occurrences(n) = 1

(***************************************************************************)
(* C10: the top-level list and every children list are in the order of the *)
(* nodes' defining lines and hold every node exactly once; the decode and  *)
(* resolution passes leave both lists as they are.                         *)
(***************************************************************************)
C10_ChildOrder ==
    [][/\ ListsInSourceOrder'
       /\ pc' # "feed" =>
            /\ roots' = roots
            /\ Len(nodes') = Len(nodes)
            /\ \A n \in NodeIds : nodes'[n].children = nodes[n].children
    ]_vars

\* both passes have run on a node with two children
C10_Witness ==
    /\ pc = "resolved"
    /\ \E n \in NodeIds : Len(nodes[n].children) >= 2
    /\ \E n \in NodeIds : nodes[n].value.kind # "undefined"

\* the level number written on the defining line of n: an optional number
LevelOf(n) ==
    IF DefRecord(n).kind = "record" THEN Def(DefRecord(n).level) ELSE Undefined

\* the depth of n in the forest, and its top-level ancestor
RECURSIVE Depth(_)
Depth(n) == IF nodes[n].parent = 0 THEN 0 ELSE Depth(nodes[n].parent) + 1

RECURSIVE TopOf(_)
TopOf(n) == IF nodes[n].parent = 0 THEN n ELSE TopOf(nodes[n].parent)

(***************************************************************************)
(* C11 as stated: for every node whose defining line matches the grammar,  *)
(* the level number written on that line equals the node's depth in the    *)
(* forest.                                                                 *)
(***************************************************************************)
C11_LevelIsDepth ==
    \A n \in NodeIds :
        IsDef(LevelOf(n)) => LevelOf(n) = Def(Depth(n))

(***************************************************************************)
(* C11 amended: for every node whose defining line matches the grammar, a  *)
(* node with a parent has the parent's level + 1, so that its level is its *)
(* depth plus the level of its top-level ancestor; that ancestor's level   *)
(* is not always 0, a record at a level L > 0 that found no node open at   *)
(* level L-1 being kept as a top-level node.                               *)
(***************************************************************************)
C11_LevelBelowParent ==
    LET level == [k \in NodeIds |-> LevelOf(k)]
    IN  \A n \in NodeIds :
            IsDef(level[n]) =>
                /\ nodes[n].parent # 0 =>
                      /\ IsDef(level[nodes[n].parent])
                      /\ Val(level[n]) = Val(level[nodes[n].parent]) + 1
                /\ IsDef(level[TopOf(n)])
                /\ Val(level[n]) = Depth(n) + Val(level[TopOf(n)])

\* a child below a top-level node whose own level is not 0
C11_Witness ==
    \E n \in NodeIds :
        /\ nodes[n].parent # 0
        /\ LevelOf(TopOf(n)) = Def(1)
        /\ LevelOf(n) = Def(2)

\* the builder as it is now, and a list of lines without its i-th
BuilderNow == Builder(nodes, roots, stack, byId)
Without(lines, i) == Sub(lines, 1, i - 1) \o Sub(lines, i + 1, Len(lines))

\* what the first i fed lines build
BuiltUpTo(i) == Built(Sub(fed, 1, i))

\* the i-th fed line is a continuation record at a level L >= 1 that arrives
\* when no node is open at level L-1
IsDangling(i) ==
    LET p == parseLine(fed[i])
        open == BuiltUpTo(i - 1).stack
    IN  /\ p.kind = "record"
        /\ p.tag \in {Def(Txt_CONC), Def(Txt_CONT)}
        /\ p.level >= 1
        /\ (p.level > Len(open) \/ open[p.level] = 0)

(***************************************************************************)
(* C12: a continuation record at level L >= 1 that arrives when no node    *)
(* is open at level L-1 leaves the top-level list, all nodes, the id index *)
(* and the open-node stack as they were, and what is built from the whole  *)
(* input is what is built from the input without that line.                *)
(***************************************************************************)
C12_DanglingDropped ==
    pc = "feed" =>
        \A i \in 1..Len(fed) :
            IsDangling(i) =>
                /\ BuiltUpTo(i) = BuiltUpTo(i - 1)
                /\ BuilderNow = Built(Without(fed, i))

\* a continuation was dropped below an existing node, and the line after it
\* continued that node
C12_Witness ==
    /\ pc = "feed"
    /\ \E i \in 2..(Len(fed) - 1) :
          /\ IsDangling(i)
          /\ log[i + 1][1] = "cont"
          /\ log[i + 1][2] # 0

(***************************************************************************)
(* C13: a record at level 0 whose tag is CONC or CONT is discarded: it     *)
(* creates no node, adds nothing to the top-level list and changes neither *)
(* the open-node stack nor any node's text.                                *)
(***************************************************************************)
C13_LevelZeroDiscarded ==
    \A i \in 1..Len(fed) :
        LET p == parseLine(fed[i])
        IN  (/\ p.kind = "record"
             /\ p.tag \in {Def(Txt_CONC), Def(Txt_CONT)}
             /\ p.level = 0)
            => BuiltUpTo(i) = BuiltUpTo(i - 1)

\* empty, or made of blanks, tabs and carriage returns only
IsBlankLine(line) == \A k \in 1..Len(line) : line[k] \in {" ", "\t", "\r"}

(***************************************************************************)
(* C14: an empty or whitespace-only line (a lone carriage return           *)
(* included) leaves the top-level list, the nodes, the id index and the    *)
(* open-node stack as they were, and the forest is the one built from the  *)
(* input without such lines.                                               *)
(***************************************************************************)
C14_BlankSkipped ==
    LET kept == Built(SelectSeq(fed, LAMBDA l : ~IsBlankLine(l)))
    IN  /\ \A i \in 1..Len(fed) :
              IsBlankLine(fed[i]) => BuiltUpTo(i) = BuiltUpTo(i - 1)
        /\ roots = kept.roots
        /\ byId = kept.byId
        /\ stack = kept.stack
        /\ Len(nodes) = Len(kept.nodes)
        /\ pc = "feed" => nodes = kept.nodes

\* a blank line after a record, an empty line, or a lone carriage return
\* before it
C14_Witness ==
    /\ Len(fed) = 3
    /\ fed[1] \in {Line_empty, Line_CR}
    /\ fed[2] = Line_INDI
    /\ fed[3] = Line_blank
    /\ roots = <<1>>

(***************************************************************************)
(* C15: with the strict mode selected, the first line outside the grammar  *)
(* makes the parse fail: no later line is applied and no parse result is   *)
(* returned.                                                               *)
(***************************************************************************)
C15_StrictModeFails ==
    options.strict = Def(TRUE) =>
        \A i \in 1..Len(fed) :
            parseLine(fed[i]).kind = "invalid" => (pc = "feed" /\ Len(fed) = i)

(***************************************************************************)
(* C16: once the pointer resolution pass has run, running it again leaves  *)
(* every node (decoded value with its reference, raw text, children,       *)
(* parent) as the first run left it.                                       *)
(***************************************************************************)
C16_ResolveTwice ==
    pc = "resolved" => resolvePointers(nodes, roots, byId) = nodes

\* the pass was run by the result's helper, after a parse that did not run
\* it; it set a reference and it turned a value into a Pointer
C16_Witness ==
    /\ pc = "resolved"
    /\ ~ResolveWanted
    /\ \E n \in NodeIds :
          /\ nodes[n].tag = Def(Txt_NAME)
          /\ IsPointer(n)
          /\ nodes[n].value.ref # 0
    /\ \E n \in NodeIds :
          /\ nodes[n].tag # Def(Txt_NAME)
          /\ IsPointer(n)
          /\ nodes[n].value.ref # 0

(***************************************************************************)
(* C17: the decode pass calls walk for every node exactly once; after it a *)
(* node without raw text has no decoded value, a DATE node has what the    *)
(* date decoder returns for it, a NAME node what the name decoder returns, *)
(* and a node with any other tag a value of the default rule: a Pointer    *)
(* made of its raw text or the raw text itself.                            *)
(***************************************************************************)
C17_DecodeEveryNodeOnce ==
    LET order == walkOrder(nodes, roots)
    IN  /\ \A n \in NodeIds :
              Cardinality({i \in 1..Len(order) : order[i] = n}) = 1
        /\ pc = "decoded" =>
              \A n \in NodeIds :
                  LET v == nodes[n].value
                      raw == nodes[n].rawValue
                  IN  IF ~IsDef(raw) THEN v = NoValue
                      ELSE IF nodes[n].tag = Def(Txt_DATE) THEN v = dateDecoder(nodes[n])
                      ELSE IF nodes[n].tag = Def(Txt_NAME) THEN v = nameDecoder(nodes[n])
                      ELSE \/ v = [kind |-> "string", text |-> Val(raw)]
                           \/ /\ v.kind = "pointer"
                              /\ v.ref = 0
                              /\ trim(v.pointer) = trim(Val(raw))

\* the decode pass has run on a text node with a child without raw text and
\* a DATE grandchild
C17_Witness ==
    /\ pc = "decoded"
    /\ \E a, b, c \in NodeIds :
          /\ nodes[a].value.kind = "string"
          /\ nodes[b].parent = a
          /\ ~IsDef(nodes[b].rawValue)
          /\ nodes[b].value = NoValue
          /\ nodes[c].parent = b
          /\ nodes[c].value.kind = "date"

(***************************************************************************)
(* Vocabulary of the decoder properties                                    *)
(***************************************************************************)
\* the nodes with the tag whose raw text is present and not empty
WithText(tag) ==
    {n \in NodeIds : /\ nodes[n].tag = Def(tag)
                     /\ IsDef(nodes[n].rawValue)
                     /\ Val(nodes[n].rawValue) # <<>>}

MonthNames == {monthMap[k] : k \in 1..12}
IsNumber(s, len) == Len(s) = len /\ \A k \in 1..len : s[k] \in Digits

\* the three shapes, the month in upper case: 'D MON YYYY', 'MON YYYY', 'YYYY'
IsDayText(t) ==
    \E dl \in {1, 2} :
        /\ Len(t) = dl + 9
        /\ IsNumber(Sub(t, 1, dl), dl)
        /\ t[dl + 1] = " "
        /\ Sub(t, dl + 2, dl + 4) \in MonthNames
        /\ t[dl + 5] = " "
        /\ IsNumber(Sub(t, dl + 6, dl + 9), 4)

IsMonthText(t) ==
    /\ Len(t) = 8
    /\ Sub(t, 1, 3) \in MonthNames
    /\ t[4] = " "
    /\ IsNumber(Sub(t, 5, 8), 4)

IsYearText(t) == IsNumber(t, 4)

C19_MonthAnyCase ==
    pc # "feed" =>
        \A n \in WithText(Txt_DATE) :
            LET t == trim(Val(nodes[n].rawValue))
                u == toUpperCase(t)
                upper == dateDecoder([rawValue |-> Def(u)])
                v == nodes[n].value
            IN  (IsDayText(u) \/ IsMonthText(u)) =>
                    /\ v.kind = "date"
                    /\ v.parsed = upper.parsed
                    /\ v.precision = upper.precision

\* the text between the first two slashes of s, or undefined
FirstPair(s) ==
    LET i == FindFirst(s, 1, {"/"})
        j == FindFirst(s, i + 1, {"/"})
    IN  IF j <= Len(s) THEN Def(Sub(s, i + 1, j - 1)) ELSE Undefined

(***************************************************************************)
(* C20: a NAME node with non-empty raw text decodes to a Name whose        *)
(* display is the raw text without its slashes, trimmed, and whose surname *)
(* is the text between the first pair of slashes, absent when there is no  *)
(* pair; a NAME node with absent or empty raw text has no decoded value.   *)
(***************************************************************************)
C20_NameValue ==
    pc = "decoded" =>
        \A n \in NodeIds :
            nodes[n].tag = Def(Txt_NAME) =>
                IF n \in WithText(Txt_NAME)
                THEN LET raw == Val(nodes[n].rawValue)
                     IN  nodes[n].value =
                             [kind |-> "name",
                              display |-> trim(SelectSeq(raw, LAMBDA c : c # "/")),
                              surname |-> FirstPair(raw)]
                ELSE nodes[n].value = NoValue

(***************************************************************************)
(* C21: with the default registry a GIVN or SURN node with non-empty raw   *)
(* text is decoded by the name decoder into a Name value, as a NAME node   *)
(* is.                                                                     *)
(***************************************************************************)
C21_NamePartsDecoded ==
    pc = "decoded" =>
        \A n \in WithText(Txt_GIVN) \cup WithText(Txt_SURN) :
            /\ nodes[n].value.kind = "name"
            /\ nodes[n].value = nameDecoder(nodes[n])

(***************************************************************************)
(* Record lines: every combination of a level, an optional id, a tag and   *)
(* an optional value, followed by lines of a record below it               *)
(***************************************************************************)
LineLevels == {<<"0">>, <<"1">>}
LineIds == {<<>>, <<"@", "I", "1", "@", " ">>}
LineTags == {Txt_INDI, <<"i", "n", "d", "i">>, <<"F", "a", "m">>, Txt_MARR,
             <<"D", "i", "v">>, Txt_PLAC, <<"N", "O", "T", "E">>, <<"@">>}
LineValues == {<<>>, <<" ">>, <<" ", " ", "a", " ", " ", "b", " ">>,
               <<"\t", "a">>}

RecordLines ==
    {lvl \o <<" ">> \o id \o tag \o val :
        lvl \in LineLevels, id \in LineIds, tag \in LineTags,
        val \in LineValues}

RecordFollowers == {Line_1_CONC_c, Line_1_NOTE}

\* the input is one record line followed by a continuation or a child record
FeedRecord ==
    \E l \in IF fed = <<>> THEN RecordLines ELSE RecordFollowers : Feed(l)
NextLine == FeedRecord \/ Finish \/ ResolveAgain
SpecLine == Init /\ [][NextLine]_vars

\* s ends with the text t
EndsWith(s, t) ==
    Len(t) <= Len(s) /\ Sub(s, Len(s) - Len(t) + 1, Len(s)) = t

\* head is a level and a separator run, then the id and a separator run
IsLineHead(head, pointer) ==
    LET e1 == SpanEnd(head, 1, Digits)
        e2 == SpanEnd(head, e1, WhiteSpace)
    IN  /\ e1 > 1
        /\ e2 > e1
        /\ \/ e2 = Len(head) + 1
           \/ /\ IsDef(pointer)
              /\ \E e3 \in e2..Len(head) :
                    /\ Sub(head, e2, e3 - 1) = Val(pointer)
                    /\ SpanEnd(head, e3, WhiteSpace) = Len(head) + 1

(***************************************************************************)
(* C22: for every line that matches the grammar, with or without an id,    *)
(* the record's value is exactly the text after the single separator that  *)
(* follows the tag, all its whitespace kept; it is absent when nothing     *)
(* follows the tag and the empty text when only the separator follows.     *)
(***************************************************************************)
C22_ValueVerbatim ==
    \A k \in 1..Len(fed) :
        LET line == StripCR(fed[k])
            r == parseLine(fed[k])
        IN  r.kind = "record" =>
                \E tail \in IF IsDef(r.value)
                            THEN {Val(r.tag) \o <<sep>> \o Val(r.value) :
                                      sep \in WhiteSpace}
                            ELSE {Val(r.tag)} :
                    /\ EndsWith(line, tail)
                    /\ IsLineHead(Sub(line, 1, Len(line) - Len(tail)),
                                  r.pointer)

(***************************************************************************)
(* The line tokenizer linesFrom and parseGedcom                            *)
(***************************************************************************)
MaxStreamLines == 2

\* src.split(/\n/)
RECURSIVE SplitLines(_)
SplitLines(s) ==
    LET i == FindFirst(s, 1, {"\n"})
    IN  IF i > Len(s) THEN <<s>>
        ELSE <<Sub(s, 1, i - 1)>> \o SplitLines(Sub(s, i + 1, Len(s)))

\* the lines of a string input: the byte order mark at position 0 is
\* sliced off, then the text is split at the line feeds
linesFromString(src) ==
    SplitLines(IF src # <<>> /\ src[1] = "BOM" THEN Tail(src) ELSE src)

\* the chunk as text: a string chunk as it is; a Uint8Array chunk through
\* decoder.decode(value), which drops a byte order mark opening the chunk
decodeChunk(kind, chunk) ==
    IF kind = "bytes" /\ chunk # <<>> /\ chunk[1] = "BOM" THEN Tail(chunk)
    ELSE chunk

\* the text after the last line feed is thrown away
RemainderDropped(parts) == <<>>

\* flushLines: buffer = parts[parts.length - 1] || ""
Remainder(parts) == parts[Len(parts)]

\* flushLines' yields, each through l.replace(/\r$/, "")
Flushed(parts) == [i \in 1..(Len(parts) - 1) |-> StripCR(parts[i])]

FeedStep(r, f) == [b |-> f.b, dids |-> Append(r.dids, f.did)]

\* parser.feed for each of the lines in turn
RECURSIVE FeedAll(_, _)
FeedAll(r, lines) ==
    IF lines = <<>> THEN r
    ELSE FeedAll(FeedStep(r, feed(r.b, Head(lines))), Tail(lines))

\* the loop body of parseGedcom for the lines linesFrom yields in one step
Deliver(lines) ==
    /\ fed' = fed \o lines
    /\ \E r \in {FeedAll([b |-> Builder(nodes, roots, stack, byId),
                          dids |-> <<>>], lines)} :
           /\ nodes' = r.b.nodes
           /\ roots' = r.b.roots
           /\ stack' = r.b.stack
           /\ byId' = r.b.byId
           /\ log' = log \o r.dids

IsStream == input.kind \in {"chunks", "bytes"}

\* the promise of parseGedcom is settled by the error
Swallowed == "feed"
Rejected == "rejected"

\* the generator's state after a step: what it yields on the way (lines),
\* how much of the input it has taken and what it holds back
Yield(lines, inp, buf) == [lines |-> lines, input |-> inp, buffer |-> buf]

\* a chunk of the stream, decoded, is appended to the buffer: every complete
\* line of the buffer is yielded, the rest is held
AfterChunk(inp, buf, k) ==
    LET parts == SplitLines(buf \o decodeChunk(inp.kind,
                                     Sub(inp.text, inp.pos + 1, inp.pos + k)))
    IN  Yield(Flushed(parts), [inp EXCEPT !.pos = @ + k], Remainder(parts))

\* the stream has ended: what is left in the buffer is the last line
AfterEnd(inp, buf) ==
    Yield(IF buf # <<>> THEN <<StripCR(buf)>> ELSE <<>>,
          [inp EXCEPT !.done = TRUE], buf)

\* a string input: its next line, or the end (pos counts lines here)
AfterString(inp, buf) ==
    LET lines == linesFromString(inp.text)
    IN  IF inp.pos < Len(lines)
        THEN Yield(<<lines[inp.pos + 1]>>, [inp EXCEPT !.pos = @ + 1], buf)
        ELSE Yield(<<>>, [inp EXCEPT !.done = TRUE], buf)

\* linesFrom: the steps the generator can take next; a stream delivers its
\* text in chunks of any length
linesFrom(inp, buf) ==
    IF inp.kind = "string" THEN {AfterString(inp, buf)}
    ELSE {AfterChunk(inp, buf, k) : k \in 1..(Len(inp.text) - inp.pos)}
         \cup (IF inp.pos = Len(inp.text) THEN {AfterEnd(inp, buf)} ELSE {})

\* for await (const raw of linesFrom(input)) parser.feed(String(raw))
Pull ==
    /\ pc = "feed"
    /\ input.kind \in {"string", "chunks", "bytes"}
    /\ ~input.done
    /\ \E y \in linesFrom(input, buffer) :
           /\ input' = y.input
           /\ buffer' = y.buffer
           /\ Deliver(y.lines)
    /\ UNCHANGED <<options, pc>>

\* reader.read() or the iteration of the stream throws
ReadFails ==
    /\ pc = "feed"
    /\ IsStream
    /\ ~input.done
    /\ input' = [input EXCEPT !.failed = TRUE]
    /\ pc' = Rejected
    /\ UNCHANGED <<nodes, roots, stack, byId, options, fed, log, buffer>>

\* throw new Error("Unsupported stream input")
Unsupported ==
    /\ pc = "feed"
    /\ input.kind = "unsupported"
    /\ input' = [input EXCEPT !.failed = TRUE]
    /\ pc' = Rejected
    /\ UNCHANGED <<nodes, roots, stack, byId, options, fed, log, buffer>>

\* the lines of the stream texts: a record with an id, a continuation, and
\* a record behind a byte order mark
Line_I_N_a == <<"0", " ", "@", "I", "@", " ", "N", " ", "a">>
Line_1_CONT_b == <<"1", " ">> \o Txt_CONT \o <<" ", "b">>
Line_BOM_0_H == <<"BOM", "0", " ", "H">>
StreamLines == {Line_I_N_a, Line_1_CONT_b, Line_BOM_0_H}

LF == <<"\n">>
CRLF == <<"\r", "\n">>

\* the lines, each but the last followed by the line ending, and the last
\* too when final
RECURSIVE JoinLines(_, _, _)
JoinLines(ls, ending, final) ==
    IF Len(ls) = 1 THEN ls[1] \o (IF final THEN ending ELSE <<>>)
    ELSE ls[1] \o ending \o JoinLines(Tail(ls), ending, final)

StreamTexts ==
    {JoinLines(ls, ending, final) :
        ls \in UNION {[1..n -> StreamLines] : n \in 1..MaxStreamLines},
        ending \in {LF, CRLF}, final \in BOOLEAN}

StreamInputs ==
    {[kind |-> k, text |-> t, pos |-> 0, done |-> FALSE, failed |-> FALSE] :
        k \in {"string", "chunks", "bytes"}, t \in StreamTexts}
    \cup {[kind |-> "unsupported", text |-> <<>>, pos |-> 0, done |-> FALSE,
           failed |-> FALSE]}

InitStream ==
    /\ nodes = <<>>
    /\ roots = <<>>
    /\ stack = <<>>
    /\ byId = <<>>
    /\ options \in {[resolvePointers |-> r] : r \in {Undefined, Def(TRUE), Def(FALSE)}}
    /\ pc = "feed"
    /\ fed = <<>>
    /\ log = <<>>
    /\ input \in StreamInputs
    /\ buffer = <<>>

NextStream ==
    \/ Pull
    \/ ReadFails
    \/ Unsupported
    \/ Finish
    \/ ResolveAgain
SpecStream == InitStream /\ [][NextStream]_vars

\* the text holds a byte order mark
HasBOM(t) == \E k \in 1..Len(t) : t[k] = "BOM"

\* the text with LF for every CRLF (its lines hold no other carriage return)
ToLF(t) == SelectSeq(t, LAMBDA c : c # "\r")

\* the forest and the id index of the builder b
Forest(b) == <<b.nodes, b.roots, b.byId>>

(***************************************************************************)
(* C23: for a text without byte order mark that arrives as string chunks   *)
(* cut anywhere, with LF or CRLF line endings, parseGedcom builds the      *)
(* forest and the id index that parseGedcomSync builds from the whole text *)
(* with LF endings; while the stream runs, exactly the complete lines of   *)
(* what has arrived have been fed and the partial line is held back; the   *)
(* last line is fed also when no line break follows it.                    *)
(***************************************************************************)
C23_ChunkedAsWhole ==
    (input.kind = "chunks" /\ ~HasBOM(input.text) /\ pc = "feed") =>
        IF input.done
        THEN Forest(BuilderNow) =
                 Forest(Built(linesFromString(ToLF(input.text))))
        ELSE LET parts == SplitLines(ToLF(Sub(input.text, 1, input.pos)))
             IN  /\ fed = Sub(parts, 1, Len(parts) - 1)
                 /\ ToLF(buffer) = parts[Len(parts)]

\* "0 @I@ N a\r\n1 CONT b" has arrived in chunks and its last line was fed
C23_Witness ==
    /\ input.kind = "chunks"
    /\ input.done
    /\ pc = "feed"
    /\ input.text = JoinLines(<<Line_I_N_a, Line_1_CONT_b>>, CRLF, FALSE)
    /\ Len(nodes) = 1
    /\ nodes[1].rawValue = Def(<<"a", "\n", "b">>)
    /\ Lookup(byId, <<"@", "I", "@">>) = 1

\* the characters of the lines, in order, without carriage returns and
\* line feeds
RECURSIVE LineChars(_)
LineChars(lines) ==
    IF lines = <<>> THEN <<>>
    ELSE SelectSeq(Head(lines), LAMBDA c : c \notin {"\r", "\n"})
             \o LineChars(Tail(lines))

(***************************************************************************)
(* C24: for every kind of input (a string, a stream of string chunks, a    *)
(* stream of byte chunks) the lines that are parsed are the lines of the   *)
(* input without the byte order mark that is its first character, and     *)
(* with every byte order mark at another position, the start of a later    *)
(* chunk included, still in place.                                         *)
(***************************************************************************)
C24_OnlyFirstBOMRemoved ==
    (input.kind \in {"string", "chunks", "bytes"} /\ input.done) =>
        LineChars(fed) =
            LineChars(<<IF input.text[1] = "BOM" THEN Tail(input.text)
                        ELSE input.text>>)

(***************************************************************************)
(* C27: when parseGedcom is given an unsupported input, or a stream whose  *)
(* read fails part-way, its promise is rejected: the decode pass and the   *)
(* resolution pass have not run and never run, so no node has a decoded    *)
(* value or a resolved reference and no result, not even a partial one,    *)
(* is returned.                                                            *)
(***************************************************************************)
C27_ErrorRejects ==
    input.failed =>
        /\ pc = "rejected"
        /\ \A n \in NodeIds : nodes[n].value = NoValue

\* the stream failed after the line "0 @I@ N a" had been fed
C27_Witness ==
    /\ input.failed
    /\ input.kind = "chunks"
    /\ pc = "rejected"
    /\ fed = <<Line_I_N_a>>
    /\ Len(nodes) = 1

\* how often n stands in the top-level list and in the children lists
Places(n) ==
    Cardinality({i \in 1..Len(roots) : roots[i] = n})
    + Cardinality({<<p, i>> \in NodeIds \X NodeIds :
                      i <= Len(nodes[p].children) /\ nodes[p].children[i] = n})

IsPrefix(s, t) == Len(s) <= Len(t) /\ s = Sub(t, 1, Len(s))

\* the forest and the id index fit together
Consistent ==
    /\ \A n \in NodeIds :
          /\ n \in Reachable
          /\ Places(n) = 1
          /\ (nodes[n].parent = 0) <=> (\E i \in 1..Len(roots) : roots[i] = n)
          /\ \A p \in NodeIds :
                (nodes[n].parent = p)
                    <=> (\E i \in 1..Len(nodes[p].children) :
                            nodes[p].children[i] = n)
    /\ \A i \in 1..Len(byId) :
          /\ byId[i][2] \in Reachable
          /\ nodes[byId[i][2]].id = Def(byId[i][1])

\* every node stays where it is: lists and raw texts only grow at their end
OnlyAppends ==
    /\ IsPrefix(roots, roots')
    /\ Len(nodes) <= Len(nodes')
    /\ \A n \in NodeIds :
          /\ nodes'[n].parent = nodes[n].parent
          /\ nodes'[n].id = nodes[n].id
          /\ nodes'[n].tag = nodes[n].tag
          /\ nodes'[n].variant = nodes[n].variant
          /\ IsPrefix(nodes[n].children, nodes'[n].children)
          /\ IsDef(nodes[n].rawValue) =>
                /\ IsDef(nodes'[n].rawValue)
                /\ IsPrefix(Val(nodes[n].rawValue), Val(nodes'[n].rawValue))

(***************************************************************************)
(* C25: after every prefix of the lines the builder is consistent: every   *)
(* node is reachable from the top-level list and stands in exactly one     *)
(* list, it stands in a node's children exactly when its parent is that    *)
(* node, and in the top-level list exactly when it has no parent; every    *)
(* entry of the id index leads to a node of the forest whose id is the     *)
(* key; and feeding a line only appends a node or text: no node is removed *)
(* or moved.                                                               *)
(***************************************************************************)
C25_BuilderConsistent ==
    [][/\ Consistent'
       /\ (pc = "feed" /\ pc' = "feed") => OnlyAppends]_vars

\* "0 @I1@ INDI" and a child record below it have been fed
C25_Witness ==
    /\ pc = "feed"
    /\ Len(nodes) >= 2
    /\ nodes[2].parent = 1
    /\ nodes[1].children = <<2>>
    /\ Lookup(byId, <<"@", "I", "1", "@">>) = 1
    /\ Consistent

\* tag is name written in upper-case, lower-case or mixed-case letters
Spelled(tag, name) ==
    /\ Len(tag) = Len(name)
    /\ \A k \in 1..Len(name) :
          \/ tag[k] = name[k]
          \/ \E j \in 1..26 : UpperSeq[j] = name[k] /\ LowerSeq[j] = tag[k]

\* the node variants the tag stands for
VariantsFor(tag) ==
    IF Spelled(tag, Txt_INDI) THEN {"IndividualNode"}
    ELSE IF Spelled(tag, Txt_FAM) THEN {"FamilyGroupNode"}
    ELSE IF Spelled(tag, Txt_MARR) \/ Spelled(tag, Txt_DIV)
         THEN {"MarriageNode", "DivorceNode"}
    ELSE IF Spelled(tag, Txt_PLAC) THEN {"PlaceNode"}
    ELSE {"BaseNode"}

(***************************************************************************)
(* C26: the default node factory chooses the variant of a node by its tag  *)
(* in upper case (INDI the person variant, FAM the family variant, MARR    *)
(* and DIV an event variant, PLAC the place variant, any other tag the     *)
(* generic node), whatever the value, the level and the parent are, and    *)
(* the node's tag is the tag as the line spells it.                        *)
(***************************************************************************)
C26_VariantByTag ==
    \A n \in NodeIds :
        LET r == DefRecord(n)
        IN  r.kind = "record" =>
                /\ nodes[n].tag = r.tag
                /\ \E i \in 1..Len(r.raw) :
                      Sub(r.raw, i, i + Len(Val(r.tag)) - 1) = Val(nodes[n].tag)
                /\ nodes[n].variant \in VariantsFor(Val(r.tag))

\* "1 @I1@ indi  a  b " made a person node with the tag "indi", and
\* "1 NOTE" a generic node
C26_Witness ==
    /\ Len(nodes) = 2
    /\ nodes[1].variant = "IndividualNode"
    /\ nodes[1].tag = Def(<<"i", "n", "d", "i">>)
    /\ IsDef(nodes[1].id)
    /\ IsDef(nodes[1].rawValue)
    /\ LevelOf(1) = Def(1)
    /\ nodes[2].variant = "BaseNode"

\* the characters of the text but its byte order marks and line breaks
PlainChars(t) == SelectSeq(t, LAMBDA c : c \notin {"BOM", "\r", "\n"})

(***************************************************************************)
(* C28: in parseGedcom and in parseGedcomSync no node has a decoded value  *)
(* while lines are fed; when the decode pass has run the input has ended   *)
(* and every line of it has been applied, the raw text of every node is    *)
(* the text the lines have accumulated, and every node decoded by the      *)
(* default string rule has that whole text as its value.                   *)
(***************************************************************************)
C28_DecodeAfterLastLine ==
    /\ pc = "feed" => \A n \in NodeIds : nodes[n].value = NoValue
    /\ pc \in {"decoded", "resolved"} =>
          /\ input.done
          /\ input.kind \in {"string", "chunks"} =>
                PlainChars(LineChars(fed)) = PlainChars(input.text)
          /\ LET final == Built(fed).nodes
             IN  \A n \in NodeIds :
                    /\ nodes[n].rawValue = final[n].rawValue
                    /\ nodes[n].value.kind = "string" =>
                          nodes[n].value.text = Val(final[n].rawValue)

\* "0 @I@ N a", "1 CONT b" came in chunks; the value of the node is "a\nb"
C28_Witness ==
    /\ pc = "decoded"
    /\ input.kind = "chunks"
    /\ fed = <<Line_I_N_a, Line_1_CONT_b>>
    /\ nodes[1].value = [kind |-> "string", text |-> <<"a", "\n", "b">>]

\* the i-th fed line is a normal record; it made the node NodeOf(i) at the
\* level RecordLevel(i)
IsRecordAt(i) == IsNormalRecord(fed[i]) /\ log[i][1] = "node"
NodeOf(i) == log[i][2]
RecordLevel(i) == parseLine(fed[i]).level

(***************************************************************************)
(* C29: after a normal record at level L is applied the stack holds the    *)
(* new node at level L and no node above L; and once a later normal record *)
(* at the same or a lower level has been applied, the node of the earlier  *)
(* record gains no child and no continuation text from any line after it.  *)
(***************************************************************************)
C29_ClosedStaysClosed ==
    /\ (fed # <<>> /\ IsRecordAt(Len(fed))) =>
          LET L == RecordLevel(Len(fed))
          IN  /\ StackAt(stack, Def(L)) = NodeOf(Len(fed))
              /\ \A j \in (L + 2)..Len(stack) : stack[j] = 0
    /\ \A i, j, k \in 1..Len(fed) :
          (/\ i < j
           /\ j < k
           /\ IsRecordAt(i)
           /\ IsRecordAt(j)
           /\ RecordLevel(j) <= RecordLevel(i)) =>
              /\ log[k] # <<"cont", NodeOf(i)>>
              /\ log[k][1] = "node" => nodes[log[k][2]].parent # NodeOf(i)

\* "1 NOTE", "1 NOTE", "2 CONC e": the text goes to the second node
C29_Witness ==
    /\ fed = <<Line_1_NOTE, Line_1_NOTE, Line_2_CONC_e>>
    /\ log = <<<<"node", 1>>, <<"node", 2>>, <<"cont", 2>>>>
    /\ nodes[1].rawValue = Undefined
    /\ IsDef(nodes[2].rawValue)

\* the month number (0 for JAN) of the month word
WrittenMonth(word) == (CHOOSE k \in 1..12 : monthMap[k] = word) - 1

(***************************************************************************)
(* C30: whenever the DATE decoder returns a parsed date, its year, month   *)
(* and day are the year, the month and the day written in the text, with   *)
(* day 1 for 'MON YYYY' and 1 January for 'YYYY', for every year 0000 to   *)
(* 9999 and every day number of one or two digits.                         *)
(***************************************************************************)
C30_DateAsWritten ==
    pc # "feed" =>
        \A n \in WithText(Txt_DATE) :
            LET t == trim(Val(nodes[n].rawValue))
                v == nodes[n].value
                len == Len(t)
            IN  (v.kind = "date" /\ IsDef(v.parsed)) =>
                    /\ Val(v.parsed).year = parseInt(Sub(t, len - 3, len))
                    /\ IsDayText(t) =>
                          /\ Val(v.parsed).month =
                                 WrittenMonth(Sub(t, len - 7, len - 5))
                          /\ Val(v.parsed).day = parseInt(Sub(t, 1, len - 9))
                    /\ IsMonthText(t) =>
                          /\ Val(v.parsed).month = WrittenMonth(Sub(t, 1, 3))
                          /\ Val(v.parsed).day = 1
                    /\ IsYearText(t) =>
                          /\ Val(v.parsed).month = 0
                          /\ Val(v.parsed).day = 1

====
